---- MODULE Spec2Model ----
(***************************************************************************)
(* A model of Helium's TableDao (server/src/routes/api/tables.queries.ts): *)
(* insertRow and its transaction, resolveConstraints and its chain walk,   *)
(* headers with parseType / findEnumValues, meta and content; and of the   *)
(* client's grouping of table names and choice of a default schema        *)
(* (AppComponent) and its forms (FormHostComponent,                        *)
(* FormSpecGeneratorService).                                              *)
(***************************************************************************)
EXTENDS Integers, Sequences, FiniteSets, TLC

VARIABLES
    \* ---- insertRow ----
    store,          \* committed rows of every table: table name -> sequence of rows
    txStore,        \* the rows as seen inside the open transaction
    inTx,           \* a transaction is open
    txOpened,       \* how many transactions this call has opened
    ipc,            \* position of insertRow
    iTable,         \* insertRow's `table` argument
    preparedData,   \* the validator's mapping: target table name -> prepared rows
    names,          \* the sorted key list of the loop
    idx,            \* position of the loop in names
    inflight,       \* insert statements handed to the store and not yet answered
    log,            \* insert statements the store has completed, in order
    before,         \* the committed store when insertRow was called
    ierr,           \* the error insertRow rejected with
    failedStmt,     \* the statement the store refused, if any
    vOutcome,       \* what the validator answered: Null, "accepted" or "rejected"
    \* ---- resolveConstraints ----
    keyUsage,       \* INFORMATION_SCHEMA.KEY_COLUMN_USAGE: table -> its rows in order
    rTable,         \* the table whose constraints are listed and resolved
    rpc,            \* position of resolveConstraints
    originals,      \* the constraint list being resolved
    oi,             \* position of the for loop in originals
    current,        \* the walk's current constraint
    previous,       \* the walk's previous constraint
    hops,           \* lookups the current walk has made
    resolved,       \* the list built so far
    cache,          \* the per-call cache: table -> constraint list
    fetches,        \* store round trips of this call, per table
    result,         \* what resolveConstraints returned
    rerr,           \* the error resolveConstraints threw
    \* ---- headers ----
    columns,        \* INFORMATION_SCHEMA.columns of the schema, in ordinal order
    hpc,            \* position of headers
    hName,          \* headers' name argument
    hRows,          \* the rows the catalog query returned
    hi,             \* position of the map over the rows
    hResult,        \* the headers returned
    herr,           \* the error headers threw
    \* ---- findEnumValues on one column type ----
    eDeclared,      \* the values the enum column was declared with (none: not an enum)
    eRaw,           \* the COLUMN_TYPE string handed to findEnumValues
    epc,            \* position of the call
    eResult,        \* what findEnumValues gave
    \* ---- meta ----
    mTable,         \* meta's table argument
    mStoreTables,   \* the table names SHOW TABLES lists, in order
    mpc,            \* position of meta
    mSub,           \* the state of each of the five promises handed to Promise.all
    mValue,         \* what each fulfilled promise resolved to
    mAll,           \* the promise of Promise.all
    mFirstFailed,   \* the promise that was rejected before any other
    mResult,        \* the TableMeta meta resolved to
    mErr,           \* the error meta was rejected with
    \* ---- AppComponent: the grouped table names ----
    gNames,         \* the master names unflattenTableNames gave
    gpc,            \* position of the map callback
    groupedNames,   \* AppComponent.groupedNames
    gErr,           \* the error the callback threw
    \* ---- the forms built from a table's headers ----
    fHeaders,       \* meta.headers of the table the form is for
    fHostPc,        \* position of FormHostComponent's route callback
    fConfig,        \* FormHostComponent.config
    fGenPc,         \* position of FormSpecGeneratorService.generate
    fSpecs,         \* the FormControlSpecs generate returned
    \* ---- content ----
    cTable,         \* content's table argument
    cStored,        \* the rows of that table in the store
    cpc,            \* position of content
    cRows,          \* the rows the select returned
    cOut,           \* the rows content resolved to
    cErr,           \* the error content threw
    \* ---- AppComponent: the default schema ----
    dUrl,           \* the path segments of router.url
    schemaControl,  \* the value of AppComponent.schemaControl
    schemas,        \* AppComponent.schemas
    dAll,           \* the list the last call of determineDefaultSchema was given
    dResult,        \* what that call returned
    dErr            \* the error the subscriber threw

insertVars == <<store, txStore, inTx, txOpened, ipc, iTable, preparedData, names,
                idx, inflight, log, before, ierr, failedStmt, vOutcome>>

resolveVars == <<keyUsage, rTable, rpc, originals, oi, current, previous, hops, resolved, cache,
                 fetches, result, rerr>>

headerVars == <<columns, hpc, hName, hRows, hi, hResult, herr>>

enumVars == <<eDeclared, eRaw, epc, eResult>>

\* The variables of the parts that follow headers
metaVars == <<mTable, mStoreTables, mpc, mSub, mValue, mAll, mFirstFailed, mResult, mErr>>

groupVars == <<gNames, gpc, groupedNames, gErr>>

formVars == <<fHeaders, fHostPc, fConfig, fGenPc, fSpecs>>

contentVars == <<cTable, cStored, cpc, cRows, cOut, cErr>>

schemaVars == <<dUrl, schemaControl, schemas, dAll, dResult, dErr>>

laterVars == <<enumVars, metaVars, groupVars, formVars, contentVars, schemaVars>>

\* What each of those parts leaves alone
exceptEnum == <<insertVars, resolveVars, headerVars, metaVars, groupVars, formVars,
               contentVars, schemaVars>>

exceptMeta == <<insertVars, resolveVars, headerVars, enumVars, groupVars, formVars,
               contentVars, schemaVars>>

exceptGroup == <<insertVars, resolveVars, headerVars, enumVars, metaVars, formVars,
               contentVars, schemaVars>>

exceptForm == <<insertVars, resolveVars, headerVars, enumVars, metaVars, groupVars,
               contentVars, schemaVars>>

exceptContent == <<insertVars, resolveVars, headerVars, enumVars, metaVars, groupVars,
                  formVars, schemaVars>>

exceptSchema == <<insertVars, resolveVars, headerVars, enumVars, metaVars, groupVars,
                 formVars, contentVars>>

vars == <<insertVars, resolveVars, headerVars, laterVars>>

----------------------------------------------------------------------------
(* Values shared by all parts *)

\* JavaScript null / undefined, kept apart from every string the model uses
Null == "<null>"

Schema == "helium"

Min(a, b) == IF a < b THEN a ELSE b

RECURSIVE SeqsUpTo(_, _)
SeqsUpTo(S, n) ==
    IF n = 0 THEN {<<>>}
    ELSE LET shorter == SeqsUpTo(S, n - 1)
         IN  shorter \cup {Append(s, x) : s \in {t \in shorter : Len(t) = n - 1}, x \in S}

\* String.prototype.includes / startsWith
Includes(s, sub) ==
    \E i \in 1..(Len(s) - Len(sub) + 1) : SubSeq(s, i, i + Len(sub) - 1) = sub

StartsWith(s, pre) == Len(s) >= Len(pre) /\ SubSeq(s, 1, Len(pre)) = pre

\* Characters of the names in code-unit order (digits < upper case < '_' <
\* lower case)
Alphabet == "0123456789ABCDEFGHIJKLMNOPQRSTUVWXYZ_abcdefghijklmnopqrstuvwxyz"

CharCode(c) == CHOOSE i \in 1..Len(Alphabet) : SubSeq(Alphabet, i, i) = c

\* The < of two JavaScript strings: code units compared left to right, a strict
\* prefix sorts first
RECURSIVE StrLessFrom(_, _, _)
StrLessFrom(a, b, i) ==
    IF i > Len(b) THEN FALSE
    ELSE IF i > Len(a) THEN TRUE
    ELSE LET ca == CharCode(SubSeq(a, i, i))
             cb == CharCode(SubSeq(b, i, i))
         IN  IF ca # cb THEN ca < cb ELSE StrLessFrom(a, b, i + 1)

StrLess(a, b) == StrLessFrom(a, b, 1)

----------------------------------------------------------------------------
(* insertRow *)

TableNames == {"orders", "orders__detail", "customers"}

\* A JavaScript value: what typeof says of it, and its text
Val(t, r) == [typeof |-> t, repr |-> r]

\* The rows a validator can hand back (column name -> value)
RowPool ==
    { [name |-> Val("string", "x"), active |-> Val("boolean", "true"),
       qty |-> Val("number", "0")],
      [name |-> Val("object", Null), active |-> Val("boolean", "false"),
       qty |-> Val("number", "1")] }

\* Most prepared rows per target table
MaxRowsPerTable == 2

RowSeqs == SeqsUpTo(RowPool, MaxRowsPerTable) \ {<<>>}

\* The identifier quote of MySQL (the backtick, which a TLA+ string cannot hold)
BackTick == "!"

\* Database.escapeId: the identifier between identifier quotes
escapeId(id) == BackTick \o id \o BackTick

unescapeId(q) == SubSeq(q, 2, Len(q) - 1)

\* A coercion by truthiness of every value that is not a string
prepareValueByTruthiness(v) ==
    IF v.typeof = "string" THEN v
    ELSE IF v.repr \in {"true", "1"} THEN Val("number", "1") ELSE Val("number", "0")

\* TableDao.prepareValue
prepareValue(v) ==
    IF v.typeof = "boolean"
    THEN (IF v.repr = "true" THEN Val("number", "1") ELSE Val("number", "0"))
    ELSE v

\* TableDao.prepareForInsert
prepareForInsert(validated) ==
    [k \in {escapeId(c) : c \in DOMAIN validated} |-> prepareValue(validated[unescapeId(k)])]

\* The keys in descending order: what a sort with the comparison reversed yields
RECURSIVE sortByDescending(_)
sortByDescending(S) ==
    IF S = {} THEN <<>>
    ELSE LET greatest == CHOOSE x \in S : \A y \in S \ {x} : StrLess(y, x)
         IN  <<greatest>> \o sortByDescending(S \ {greatest})

\* _.sortBy(Object.keys(preparedData)): ascending by string comparison
RECURSIVE sortBy(_)
sortBy(S) ==
    IF S = {} THEN <<>>
    ELSE LET least == CHOOSE x \in S : \A y \in S \ {x} : StrLess(x, y)
         IN  <<least>> \o sortBy(S \ {least})

\* What the store does with INSERT INTO into (cols) VALUES rows
QualifiedName(schema, t) == escapeId(schema) \o "." \o escapeId(t)

TargetOf(into) == CHOOSE t \in TableNames : QualifiedName(Schema, t) = into

StoredRow(r) == [c \in {unescapeId(k) : k \in DOMAIN r} |-> r[escapeId(c)]]

ApplyInsert(s, stmt) ==
    [s EXCEPT ![TargetOf(stmt.into)] =
        @ \o [i \in 1..Len(stmt.rows) |-> StoredRow(stmt.rows[i])]]

\* The statement built in the loop body for one name
InsertStatement(name) ==
    [ key  |-> name,
      into |-> QualifiedName(Schema, iTable),
      rows |-> [i \in 1..Len(preparedData[name]) |-> prepareForInsert(preparedData[name][i])] ]

\* validator.validate: an error, or a mapping of target names to prepared rows
ValidateOutcomes ==
    {[ok |-> FALSE, data |-> <<>>]}
        \cup {[ok |-> TRUE, data |-> d] :
                d \in UNION {[S -> RowSeqs] : S \in SUBSET TableNames}}

NoStmt == [key |-> Null, into |-> Null, rows |-> <<>>]

EmptyStore == [t \in TableNames |-> <<>>]

InitStores ==
    { EmptyStore,
      [t \in TableNames |-> <<[id |-> Val("number", "0")]>>] }

InsertIdle ==
    /\ store = EmptyStore
    /\ txStore = EmptyStore
    /\ inTx = FALSE
    /\ txOpened = 0
    /\ ipc = "idle"
    /\ iTable = Null
    /\ preparedData = <<>>
    /\ names = <<>>
    /\ idx = 0
    /\ inflight = {}
    /\ log = <<>>
    /\ before = EmptyStore
    /\ ierr = Null
    /\ failedStmt = NoStmt
    /\ vOutcome = Null

InsertInit ==
    /\ store \in InitStores
    /\ txStore = store
    /\ inTx = FALSE
    /\ txOpened = 0
    /\ ipc = "idle"
    /\ iTable = Null
    /\ preparedData = <<>>
    /\ names = <<>>
    /\ idx = 0
    /\ inflight = {}
    /\ log = <<>>
    /\ before = store
    /\ ierr = Null
    /\ failedStmt = NoStmt
    /\ vOutcome = Null

\* insertRow going on to the transaction whatever the validator answered
InsertRowValidateIgnoringRejection ==
    /\ ipc = "idle"
    /\ \E table \in TableNames, out \in ValidateOutcomes :
        /\ iTable' = table
        /\ before' = store
        /\ vOutcome' = IF out.ok THEN "accepted" ELSE "rejected"
        /\ preparedData' = out.data
        /\ ipc' = "begin"
        /\ ierr' = Null
    /\ UNCHANGED <<store, txStore, inTx, txOpened, names, idx, inflight, log, failedStmt,
                   resolveVars, headerVars, laterVars>>

\* insertRow(schema, table, data) up to the end of its await of validator.validate
InsertRowValidate ==
    /\ ipc = "idle"
    /\ \E table \in TableNames, out \in ValidateOutcomes :
        /\ iTable' = table
        /\ before' = store
        /\ IF out.ok
           THEN /\ vOutcome' = "accepted"
                /\ preparedData' = out.data
                /\ ipc' = "begin"
                /\ ierr' = Null
           ELSE /\ vOutcome' = "rejected"
                /\ preparedData' = <<>>
                /\ ipc' = "failed"
                /\ ierr' = "ValidationError"
    /\ UNCHANGED <<store, txStore, inTx, txOpened, names, idx, inflight, log, failedStmt,
                   resolveVars, headerVars, laterVars>>

\* helper.transaction opens the transaction and enters the callback, which
\* sorts the names
TransactionBegin ==
    /\ ipc = "begin"
    /\ inTx' = TRUE
    /\ txOpened' = txOpened + 1
    /\ txStore' = store
    /\ names' = sortBy(DOMAIN preparedData)
    /\ idx' = 1
    /\ ipc' = "loop"
    /\ UNCHANGED <<store, iTable, preparedData, inflight, log, before, ierr, failedStmt,
                   vOutcome,
                   resolveVars, headerVars, laterVars>>

\* The loop body hands one statement to the store ...
InsertIssue ==
    /\ ipc = "loop"
    /\ idx <= Len(names)
    /\ inflight = {}
    /\ inflight' = inflight \cup {InsertStatement(names[idx])}
    /\ UNCHANGED <<store, txStore, inTx, txOpened, ipc, iTable, preparedData, names,
                   idx, log, before, ierr, failedStmt, vOutcome,
                   resolveVars, headerVars, laterVars>>

\* The loop body catching the store's error and going on with the next name
InsertCompleteSwallowingError ==
    /\ ipc = "loop"
    /\ \E stmt \in inflight, ok \in BOOLEAN :
        /\ inflight' = inflight \ {stmt}
        /\ idx' = idx + 1
        /\ IF ok
           THEN /\ txStore' = ApplyInsert(txStore, stmt)
                /\ log' = Append(log, stmt)
                /\ UNCHANGED <<ierr, failedStmt>>
           ELSE /\ failedStmt' = stmt
                /\ ierr' = "StoreError"
                /\ UNCHANGED <<txStore, log>>
    /\ UNCHANGED <<store, inTx, txOpened, ipc, iTable, preparedData, names, before,
                   vOutcome,
                   resolveVars, headerVars, laterVars>>

\* ... and awaits the answer: the rows are in, or the store refuses them and the
\* error leaves the callback
InsertComplete ==
    /\ ipc = "loop"
    /\ \E stmt \in inflight, ok \in BOOLEAN :
        /\ inflight' = inflight \ {stmt}
        /\ IF ok
           THEN /\ txStore' = ApplyInsert(txStore, stmt)
                /\ log' = Append(log, stmt)
                /\ idx' = idx + 1
                /\ UNCHANGED <<ipc, ierr, failedStmt>>
           ELSE /\ failedStmt' = stmt
                /\ ierr' = "StoreError"
                /\ ipc' = "rollback"
                /\ UNCHANGED <<txStore, log, idx>>
    /\ UNCHANGED <<store, inTx, txOpened, iTable, preparedData, names, before, vOutcome,
                   resolveVars, headerVars, laterVars>>

\* helper.transaction: the callback returned, commit
TransactionCommit ==
    /\ ipc = "loop"
    /\ idx > Len(names)
    /\ inflight = {}
    /\ store' = txStore
    /\ inTx' = FALSE
    /\ ipc' = "done"
    /\ UNCHANGED <<txStore, txOpened, iTable, preparedData, names, idx, inflight, log,
                   before, ierr, failedStmt, vOutcome,
                   resolveVars, headerVars, laterVars>>

\* helper.transaction: the callback threw, roll back and rethrow
TransactionRollback ==
    /\ ipc = "rollback"
    /\ txStore' = store
    /\ inTx' = FALSE
    /\ ipc' = "failed"
    /\ UNCHANGED <<store, txOpened, iTable, preparedData, names, idx, inflight, log,
                   before, ierr, failedStmt, vOutcome,
                   resolveVars, headerVars, laterVars>>

InsertNext ==
    \/ InsertRowValidate
    \/ TransactionBegin
    \/ InsertIssue
    \/ InsertComplete
    \/ TransactionCommit
    \/ TransactionRollback

----------------------------------------------------------------------------
(* insertRow: the claims *)

Range(s) == {s[i] : i \in DOMAIN s}

IsStrictPrefix(a, b) == Len(a) < Len(b) /\ SubSeq(b, 1, Len(a)) = a

\* The rows the store holds for the prepared rows of one target name
RowsAsStored(name) ==
    IF name \in DOMAIN preparedData
    THEN [i \in 1..Len(preparedData[name]) |->
            StoredRow(prepareForInsert(preparedData[name][i]))]
    ELSE <<>>

\* C1: after a successful insertRow every table has received exactly the rows
\* prepared under its own name: the rows stored under a target name went into
\* that table, and into no other.
InsertRowTargetsOwnTable ==
    ipc = "done" => \A t \in TableNames : store[t] = before[t] \o RowsAsStored(t)

\* C2: the insert statements run one at a time inside one transaction, in
\* ascending order of the name they were prepared under; the statement of a
\* master has completed before the statement of any part named after it begins.
InsertsInNameOrder ==
    /\ txOpened <= 1
    /\ Cardinality(inflight) <= 1
    /\ inflight # {} => inTx
    /\ \A i \in 1..(Len(log) - 1) : StrLess(log[i].key, log[i + 1].key)
    /\ \A s \in inflight : \A i \in DOMAIN log : StrLess(log[i].key, s.key)
    /\ \A m \in DOMAIN preparedData :
        /\ \A s \in inflight :
                IsStrictPrefix(m, s.key) => \E i \in DOMAIN log : log[i].key = m
        /\ \A j \in DOMAIN log :
                IsStrictPrefix(m, log[j].key) => \E i \in 1..(j - 1) : log[i].key = m

\* A call that wrote a master and its part, with a third table in between
InsertsInNameOrderWitness ==
    /\ ipc = "done"
    /\ Len(log) = 3
    /\ log[2].key = "orders"
    /\ log[3].key = "orders__detail"

\* C3: once the store has refused a statement, the call ends rejected with the
\* store's error and the committed store is what it was before the call: no row
\* of an earlier statement is visible.
InsertFailureRollsBack ==
    failedStmt # NoStmt =>
        /\ store = before
        /\ ierr = "StoreError"
        /\ ipc \in {"rollback", "failed"}
        /\ ipc = "failed" => (~inTx /\ txStore = before)

\* The second statement was refused after the first had gone through
InsertFailureRollsBackWitness ==
    /\ ipc = "failed"
    /\ failedStmt # NoStmt
    /\ Len(log) >= 1
    /\ log[1].rows # <<>>

\* C4: when the validator rejects the data, insertRow is rejected with the
\* validator's error, opens no transaction, runs no statement and leaves the
\* store as it was.
ValidationFailureTouchesNothing ==
    vOutcome = "rejected" =>
        /\ ipc = "failed"
        /\ ierr = "ValidationError"
        /\ txOpened = 0
        /\ ~inTx
        /\ inflight = {}
        /\ log = <<>>
        /\ store = before
        /\ txStore = before

ValidationFailureWitness ==
    /\ vOutcome = "rejected"
    /\ ipc = "failed"
    /\ store # EmptyStore

\* The statements handed to the store so far
StatementsBuilt == inflight \cup Range(log)

\* C14: in every insert statement built, each row has the columns of the prepared
\* row under escaped names; a boolean value has become the number 1 for true and
\* 0 for false, and a value of any other kind (null, a number such as 0 or 1, a
\* string) is the value that was prepared.
PreparedValuesCoerceBooleansOnly ==
    \A s \in StatementsBuilt :
        /\ Len(s.rows) = Len(preparedData[s.key])
        /\ \A i \in DOMAIN s.rows :
              LET given == preparedData[s.key][i] IN
              /\ DOMAIN s.rows[i] = {BackTick \o c \o BackTick : c \in DOMAIN given}
              /\ \A c \in DOMAIN given :
                    LET v == given[c]
                        w == s.rows[i][BackTick \o c \o BackTick]
                    IN  CASE v.typeof = "boolean" /\ v.repr = "true" -> w = Val("number", "1")
                          [] v.typeof = "boolean" /\ v.repr = "false" -> w = Val("number", "0")
                          [] OTHER -> w = v

\* A completed statement whose rows held true, false, null, the numbers 0 and 1
\* and a string
PreparedValuesWitness ==
    \E k \in DOMAIN log :
        LET held == UNION {Range(preparedData[log[k].key][i]) : i \in DOMAIN log[k].rows}
        IN  {Val("boolean", "true"), Val("boolean", "false"), Val("object", Null),
             Val("number", "0"), Val("number", "1"), Val("string", "x")} \subseteq held

----------------------------------------------------------------------------
(* resolveConstraints *)

CatalogTables == {"A", "B", "C"}

\* The one keyed column of each table
ColumnOf == [t \in CatalogTables |-> CASE t = "A" -> "foo" [] t = "B" -> "bar" [] OTHER -> "baz"]

KeyRow(col, cname, rtable, rcol) ==
    [ COLUMN_NAME |-> col, CONSTRAINT_NAME |-> cname,
      REFERENCED_TABLE_NAME |-> rtable, REFERENCED_COLUMN_NAME |-> rcol ]

\* The key-usage rows a table's column can have: the primary key, a unique key
\* named after its column or otherwise, a foreign key to the keyed column of
\* another table, and a foreign key named after its column
KeyRowsOf(t) ==
    LET col == ColumnOf[t] IN
    { KeyRow(col, "PRIMARY", Null, Null),
      KeyRow(col, col, Null, Null),
      KeyRow(col, "uq_" \o col, Null, Null),
      KeyRow(col, col, "C", ColumnOf["C"]) }
        \cup { KeyRow(col, "fk_" \o col, u, ColumnOf[u]) : u \in CatalogTables \ {t} }

\* Most key-usage rows in the whole catalog
MaxKeyRows == 3

RECURSIVE CatalogsUpTo(_)
CatalogsUpTo(n) ==
    IF n = 0 THEN {[t \in CatalogTables |-> <<>>]}
    ELSE LET smaller == CatalogsUpTo(n - 1)
         IN  smaller \cup UNION { { [c EXCEPT ![t] = Append(@, r)] : c \in smaller, r \in KeyRowsOf(t) }
                                  : t \in CatalogTables }

\* The walk's hop counter stops counting here
HopCap == 4

\* The round-trip counter stops counting here
FetchCap == 2

Constraint(type, lc, ft, fc) ==
    [type |-> type, localColumn |-> lc, foreignTable |-> ft, foreignColumn |-> fc]

NoConstraint == Constraint(Null, Null, Null, Null)

NoResult == [returned |-> FALSE, value |-> <<>>]

NoError == [message |-> Null, name |-> Null]

\* The mapping classifying a row by its reference: foreign when it names a
\* referenced table
ToConstraintByReference(row) ==
    Constraint(
        IF row.REFERENCED_TABLE_NAME # Null THEN "foreign"
        ELSE IF row.CONSTRAINT_NAME = "PRIMARY" THEN "primary"
        ELSE "unique",
        row.COLUMN_NAME, row.REFERENCED_TABLE_NAME, row.REFERENCED_COLUMN_NAME)

\* The mapping of one key-usage row in TableDao.constraints
ToConstraint(row) ==
    Constraint(
        IF row.CONSTRAINT_NAME = "PRIMARY" THEN "primary"
        ELSE IF row.CONSTRAINT_NAME = row.COLUMN_NAME THEN "unique"
        ELSE "foreign",
        row.COLUMN_NAME, row.REFERENCED_TABLE_NAME, row.REFERENCED_COLUMN_NAME)

\* TableDao.constraints(schema, table): the table's key-usage rows in order, mapped
constraints(table) ==
    IF table \in CatalogTables
    THEN [i \in 1..Len(keyUsage[table]) |-> ToConstraint(keyUsage[table][i])]
    ELSE <<>>

\* getConstraints(table): the cached list if there is one, else a round trip
getConstraints(table) ==
    IF table \in DOMAIN cache
    THEN [list |-> cache[table], fetched |-> FALSE]
    ELSE [list |-> constraints(table), fetched |-> TRUE]

\* findConstraint: _.find gives the first constraint on the column
Matching(localColumn, others) == {i \in DOMAIN others : others[i].localColumn = localColumn}

findConstraint(localColumn, others) ==
    LET hit == Matching(localColumn, others)
    IN  IF hit = {} THEN NoConstraint
        ELSE others[CHOOSE i \in hit : \A j \in hit : i <= j]

FetchTargets == CatalogTables \cup {Null}

ResolveIdle ==
    /\ keyUsage = [t \in CatalogTables |-> <<>>]
    /\ rTable = Null
    /\ rpc = "idle"
    /\ originals = <<>>
    /\ oi = 0
    /\ current = NoConstraint
    /\ previous = NoConstraint
    /\ hops = 0
    /\ resolved = <<>>
    /\ cache = <<>>
    /\ fetches = [t \in FetchTargets |-> 0]
    /\ result = NoResult
    /\ rerr = NoError

ResolveInit ==
    /\ keyUsage \in CatalogsUpTo(MaxKeyRows)
    /\ rTable = Null
    /\ rpc = "idle"
    /\ originals = <<>>
    /\ oi = 0
    /\ current = NoConstraint
    /\ previous = NoConstraint
    /\ hops = 0
    /\ resolved = <<>>
    /\ cache = <<>>
    /\ fetches = [t \in FetchTargets |-> 0]
    /\ result = NoResult
    /\ rerr = NoError

\* meta: this.constraints(schema, table).then((result) => this.resolveConstraints(schema, result))
ResolveCall ==
    /\ rpc = "idle"
    /\ \E table \in CatalogTables :
          /\ rTable' = table
          /\ originals' = constraints(table)
    /\ oi' = 1
    /\ resolved' = <<>>
    /\ cache' = <<>>
    /\ rpc' = "loop"
    /\ UNCHANGED <<keyUsage, current, previous, hops, fetches, result, rerr,
                   insertVars, headerVars, laterVars>>

\* The for loop keeping unique constraints only: a primary constraint is skipped
ResolvePassThroughDroppingPrimary ==
    /\ rpc = "loop"
    /\ oi <= Len(originals)
    /\ originals[oi].type # "foreign"
    /\ resolved' = IF originals[oi].type = "primary" THEN resolved
                                                      ELSE Append(resolved, originals[oi])
    /\ oi' = oi + 1
    /\ UNCHANGED <<keyUsage, rTable, rpc, originals, current, previous, hops, cache, fetches, result,
                   rerr, insertVars, headerVars, laterVars>>

\* for (const c of originals): a constraint that is not foreign is pushed as it is
ResolvePassThrough ==
    /\ rpc = "loop"
    /\ oi <= Len(originals)
    /\ originals[oi].type # "foreign"
    /\ resolved' = Append(resolved, originals[oi])
    /\ oi' = oi + 1
    /\ UNCHANGED <<keyUsage, rTable, rpc, originals, current, previous, hops, cache, fetches, result,
                   rerr, insertVars, headerVars, laterVars>>

\* let current = c; let previous
ResolveWalkStart ==
    /\ rpc = "loop"
    /\ oi <= Len(originals)
    /\ originals[oi].type = "foreign"
    /\ current' = originals[oi]
    /\ previous' = NoConstraint
    /\ hops' = 0
    /\ rpc' = "walk"
    /\ UNCHANGED <<keyUsage, rTable, originals, oi, resolved, cache, fetches, result, rerr,
                   insertVars, headerVars, laterVars>>

\* The while loop giving up quietly on a missing record: what was resolved so far
\* is returned
ResolveWalkHopReturningPartial ==
    /\ rpc = "walk"
    /\ current.type # "primary"
    /\ LET got  == getConstraints(current.foreignTable)
           temp == findConstraint(current.foreignColumn, got.list)
       IN  /\ fetches' = IF got.fetched
                         THEN [fetches EXCEPT ![current.foreignTable] = Min(@ + 1, FetchCap)]
                         ELSE fetches
           /\ IF temp = NoConstraint
              THEN /\ rpc' = "done"
                   /\ result' = [returned |-> TRUE, value |-> resolved]
                   /\ UNCHANGED <<current, previous, hops, rerr>>
              ELSE /\ previous' = current
                   /\ current' = temp
                   /\ hops' = Min(hops + 1, HopCap)
                   /\ UNCHANGED <<rpc, rerr, result>>
    /\ UNCHANGED <<keyUsage, rTable, originals, oi, resolved, cache, insertVars, headerVars, laterVars>>

\* One turn of the while loop: the constraint on the referenced column becomes
\* current, or findConstraint throws
ResolveWalkHop ==
    /\ rpc = "walk"
    /\ current.type # "primary"
    /\ LET got  == getConstraints(current.foreignTable)
           temp == findConstraint(current.foreignColumn, got.list)
       IN  /\ fetches' = IF got.fetched
                         THEN [fetches EXCEPT ![current.foreignTable] = Min(@ + 1, FetchCap)]
                         ELSE fetches
           /\ IF temp = NoConstraint
              THEN /\ rpc' = "failed"
                   /\ rerr' = [message |-> "could not find constraint with name",
                               name |-> current.foreignColumn]
                   /\ UNCHANGED <<current, previous, hops>>
              ELSE /\ previous' = current
                   /\ current' = temp
                   /\ hops' = Min(hops + 1, HopCap)
                   /\ UNCHANGED <<rpc, rerr>>
    /\ UNCHANGED <<keyUsage, rTable, originals, oi, resolved, cache, result, insertVars, headerVars, laterVars>>

\* The walk pushing the original constraint instead of the last link
ResolveWalkEndPushingOriginal ==
    /\ rpc = "walk"
    /\ current.type = "primary"
    /\ resolved' = Append(resolved, originals[oi])
    /\ oi' = oi + 1
    /\ rpc' = "loop"
    /\ UNCHANGED <<keyUsage, rTable, originals, current, previous, hops, cache, fetches, result, rerr,
                   insertVars, headerVars, laterVars>>

\* The while loop ends on a primary key: the previous link is pushed
ResolveWalkEnd ==
    /\ rpc = "walk"
    /\ current.type = "primary"
    /\ resolved' = IF previous # NoConstraint THEN Append(resolved, previous) ELSE resolved
    /\ oi' = oi + 1
    /\ rpc' = "loop"
    /\ UNCHANGED <<keyUsage, rTable, originals, current, previous, hops, cache, fetches, result, rerr,
                   insertVars, headerVars, laterVars>>

\* return resolved
ResolveReturn ==
    /\ rpc = "loop"
    /\ oi > Len(originals)
    /\ result' = [returned |-> TRUE, value |-> resolved]
    /\ rpc' = "done"
    /\ UNCHANGED <<keyUsage, rTable, originals, oi, current, previous, hops, resolved, cache, fetches,
                   rerr, insertVars, headerVars, laterVars>>

ResolveNext ==
    \/ ResolveCall
    \/ ResolvePassThrough
    \/ ResolveWalkStart
    \/ ResolveWalkHop
    \/ ResolveWalkEnd
    \/ ResolveReturn

----------------------------------------------------------------------------
(* resolveConstraints: the claims *)

\* The column carries a primary constraint in the table's constraint list
HasPrimary(table, column) ==
    \E p \in Range(constraints(table)) : p.type = "primary" /\ p.localColumn = column

\* Every key with a referenced column is classified foreign by constraints
ForeignKeysAreForeign ==
    \A t \in CatalogTables : \A i \in DOMAIN keyUsage[t] :
        keyUsage[t][i].REFERENCED_TABLE_NAME # Null => ToConstraint(keyUsage[t][i]).type = "foreign"

\* C5: for a chain of foreign keys of any length, the constraint emitted for a
\* foreign original keeps the original's local column and targets the
\* primary-key origin (A.foo->B.bar, B.bar->C.baz, C.baz primary gives foo -> C.baz).
ResolveKeepsLocalColumn ==
    (rpc = "done" /\ ForeignKeysAreForeign) =>
        /\ Len(result.value) = Len(originals)
        /\ \A i \in DOMAIN originals :
              originals[i].type = "foreign" =>
                /\ result.value[i].type = "foreign"
                /\ result.value[i].localColumn = originals[i].localColumn
                /\ HasPrimary(result.value[i].foreignTable, result.value[i].foreignColumn)

\* C6: when resolve returns, the target of every foreign constraint of the result
\* is the local column of a primary constraint of the target table.
ResolvedTargetsArePrimary ==
    rpc = "done" =>
        \A i \in DOMAIN result.value :
            result.value[i].type = "foreign" =>
                HasPrimary(result.value[i].foreignTable, result.value[i].foreignColumn)

\* A returned foreign constraint that a walk of two hops has put in the place of
\* the original
ResolvedTargetsArePrimaryWitness ==
    /\ rpc = "done"
    /\ \E i \in DOMAIN result.value :
          /\ result.value[i].type = "foreign"
          /\ result.value[i] # originals[i]

\* C7: the walk of one constraint is bounded: it makes no more hops than the
\* schema has tables, whatever the catalog, and then ends in a result or an error.
ResolveWalkIsBounded == hops <= Cardinality(CatalogTables)

\* The lookup of the current hop finds no record on the referenced column
LookupMisses ==
    /\ rpc = "walk"
    /\ current.type # "primary"
    /\ Matching(current.foreignColumn, getConstraints(current.foreignTable).list) = {}

\* C8: a hop whose referenced column has no constraint record in the referenced
\* table's list makes resolve fail with the error that names that column, and a
\* failed resolve has returned no list.
ResolveFailsOnMissingRecord ==
    /\ [][LookupMisses =>
            /\ rpc' = "failed"
            /\ rerr' = [message |-> "could not find constraint with name",
                        name |-> current.foreignColumn]
            /\ result' = NoResult]_vars
    /\ [](rpc = "failed" => result = NoResult /\ rerr # NoError)

\* A failure at the second hop, after an earlier original had been resolved
ResolveFailsOnMissingRecordWitness ==
    /\ rpc = "failed"
    /\ resolved # <<>>
    /\ hops >= 1
    /\ rerr.name = "baz"

\* C18: within one call of resolve the constraint list of a referenced table is
\* fetched from the store at most once; later accesses are served from the cache.
ResolveFetchesEachTableOnce == \A t \in FetchTargets : fetches[t] <= 1

\* The links a walk from constraint c passes, c included, while no link is primary
\* and every lookup finds a record; n bounds the links followed
RECURSIVE LinksFrom(_, _)
LinksFrom(c, n) ==
    IF c.type = "primary" THEN {}
    ELSE IF n = 0 THEN {c}
    ELSE LET next == findConstraint(c.foreignColumn, constraints(c.foreignTable))
         IN  IF next = NoConstraint THEN {c} ELSE {c} \cup LinksFrom(next, n - 1)

\* C19: a successful resolve emits exactly one constraint per original: the result
\* is as long as the input, a primary or unique original is identical at its
\* position, and the constraint at the position of a foreign original is a link
\* of the walk that started from that original.
ResolveEmitsOnePerOriginal ==
    /\ rpc \in {"loop", "walk"} => Len(resolved) = oi - 1
    /\ rpc = "done" =>
          /\ Len(result.value) = Len(originals)
          /\ \A i \in DOMAIN originals :
                IF originals[i].type # "foreign"
                THEN result.value[i] = originals[i]
                ELSE result.value[i] \in LinksFrom(originals[i], MaxKeyRows)

\* A returned list with a primary original kept at its position after a
\* foreign original that a walk has resolved
ResolveEmitsOnePerOriginalWitness ==
    /\ rpc = "done"
    /\ hops >= 1
    /\ \E i, j \in DOMAIN originals :
          /\ i < j
          /\ originals[i].type = "foreign"
          /\ result.value[i].type = "foreign"
          /\ originals[j].type = "primary"
          /\ result.value[j] = originals[j]

\* The kind the classification rule gives a key-usage row
DocumentedKind(row) ==
    CASE row.CONSTRAINT_NAME = "PRIMARY" -> "primary"
      [] row.CONSTRAINT_NAME # "PRIMARY" /\ row.CONSTRAINT_NAME = row.COLUMN_NAME -> "unique"
      [] OTHER -> "foreign"

\* C20: the raw constraint list of a table has one constraint per key-usage row,
\* in the order of the rows, of kind primary when the row's constraint name is
\* PRIMARY, otherwise unique when the constraint name equals the column name,
\* otherwise foreign.
ListRawClassifiesInOrder ==
    rpc # "idle" =>
        /\ Len(originals) = Len(keyUsage[rTable])
        /\ \A i \in DOMAIN originals :
              /\ originals[i].type = DocumentedKind(keyUsage[rTable][i])
              /\ originals[i].localColumn = keyUsage[rTable][i].COLUMN_NAME
              /\ originals[i].foreignTable = keyUsage[rTable][i].REFERENCED_TABLE_NAME
              /\ originals[i].foreignColumn = keyUsage[rTable][i].REFERENCED_COLUMN_NAME

\* A list with a unique key that references nothing and is not named after its
\* column (foreign by the rule), a key named after its column that references a
\* table (unique by the rule), and the primary key
ListRawClassifiesInOrderWitness ==
    /\ rpc # "idle"
    /\ \E i, j, k \in DOMAIN originals :
          /\ originals[i].type = "foreign" /\ originals[i].foreignTable = Null
          /\ originals[j].type = "unique" /\ originals[j].foreignTable # Null
          /\ originals[k].type = "primary"

\* C21: every constraint of the raw list has foreignTable and foreignColumn both
\* non-null when its type is foreign and both null when its type is primary or
\* unique, whatever key-usage rows the catalog holds.
ConstraintReferenceFollowsType ==
    rpc # "idle" =>
        \A i \in DOMAIN originals :
            IF originals[i].type = "foreign"
            THEN originals[i].foreignTable # Null /\ originals[i].foreignColumn # Null
            ELSE originals[i].foreignTable = Null /\ originals[i].foreignColumn = Null

----------------------------------------------------------------------------
(* headers *)

\* The COLUMN_TYPE strings of the catalog
RawTypes ==
    { "tinyint(1)", "tinyint(1) unsigned", "tinyint(4)", "int(11)", "bigint(20) unsigned",
      "double", "float", "decimal(10,2)", "date", "datetime", "timestamp", "datetime(6)",
      "enum('a','b')", "enum('int','x')", "enum('chart')", "enum(1)",
      "varchar(255)", "char(1)", "blob", "longblob",
      "text", "time", "point", "json", "set('a','b')" }

CURRENT_TIMESTAMP == "CURRENT_TIMESTAMP"

\* TableDao.parseType with the test for int put before the test for tinyint(1)
parseTypeIntFirst(rawType) ==
    IF Includes(rawType, "int") THEN "integer"
    ELSE IF Includes(rawType, "tinyint(1)") THEN "boolean"
    ELSE IF Includes(rawType, "double") \/ Includes(rawType, "float")
            \/ Includes(rawType, "decimal") THEN "float"
    ELSE IF rawType = "date" THEN "date"
    ELSE IF rawType = "datetime" \/ rawType = "timestamp" THEN "datetime"
    ELSE IF StartsWith(rawType, "enum") THEN "enum"
    ELSE IF Includes(rawType, "char") THEN "string"
    ELSE IF Includes(rawType, "blob") THEN "blob"
    ELSE Null

\* TableDao.parseType; Null stands for the throw
parseType(rawType) ==
    IF Includes(rawType, "tinyint(1)") THEN "boolean"
    ELSE IF Includes(rawType, "int") THEN "integer"
    ELSE IF Includes(rawType, "double") \/ Includes(rawType, "float")
            \/ Includes(rawType, "decimal") THEN "float"
    ELSE IF rawType = "date" THEN "date"
    ELSE IF rawType = "datetime" \/ rawType = "timestamp" THEN "datetime"
    ELSE IF StartsWith(rawType, "enum") THEN "enum"
    ELSE IF Includes(rawType, "char") THEN "string"
    ELSE IF Includes(rawType, "blob") THEN "blob"
    ELSE Null

EndsWith(s, suf) == Len(s) >= Len(suf) /\ SubSeq(s, Len(s) - Len(suf) + 1, Len(s)) = suf

\* String.prototype.split with a separator that is not empty
RECURSIVE SplitFrom(_, _, _, _)
SplitFrom(s, sep, from, i) ==
    IF i + Len(sep) - 1 > Len(s) THEN <<SubSeq(s, from, Len(s))>>
    ELSE IF SubSeq(s, i, i + Len(sep) - 1) = sep
         THEN <<SubSeq(s, from, i - 1)>> \o SplitFrom(s, sep, i + Len(sep), i + Len(sep))
         ELSE SplitFrom(s, sep, from, i + 1)

Split(s, sep) == SplitFrom(s, sep, 1, 1)

\* string[] | null, and the throw of findEnumValues
EnumValues(vs) == [isNull |-> FALSE, threw |-> FALSE, values |-> vs]

NullEnumValues == [isNull |-> TRUE, threw |-> FALSE, values |-> <<>>]

EnumValuesThrow == [isNull |-> FALSE, threw |-> TRUE, values |-> <<>>]

\* TableDao.findEnumValues: /^enum\(/ and /^enum\('(.*)'\)$/
findEnumValues(raw) ==
    IF ~StartsWith(raw, "enum(") THEN NullEnumValues
    ELSE IF ~(StartsWith(raw, "enum('") /\ EndsWith(raw, "')") /\ Len(raw) >= 8)
         THEN EnumValuesThrow
         ELSE EnumValues(Split(SubSeq(raw, 7, Len(raw) - 2), "','"))

Digits == "0123456789"

IsDigit(c) == \E i \in 1..Len(Digits) : SubSeq(Digits, i, i) = c

\* The leading decimal digits of a string
RECURSIVE LeadingDigits(_, _)
LeadingDigits(s, i) ==
    IF i <= Len(s) /\ IsDigit(SubSeq(s, i, i)) THEN LeadingDigits(s, i + 1) ELSE SubSeq(s, 1, i - 1)

\* parseInt(s, 10) and parseFloat(s) of the defaults the catalog holds: the number
\* its leading digits spell, NaN without any (null too)
parseInt(s) ==
    IF s = Null \/ LeadingDigits(s, 1) = "" THEN Val("number", "NaN")
    ELSE Val("number", LeadingDigits(s, 1))

\* TableDao.identifyDefaultValue
identifyDefaultValue(rawType, type, rawDefault) ==
    IF rawDefault = CURRENT_TIMESTAMP /\ rawType = "datetime"
    THEN Val("constantName", CURRENT_TIMESTAMP)
    ELSE CASE type = "integer" -> parseInt(rawDefault)
           [] type = "float" -> parseInt(rawDefault)
           [] type = "boolean" ->
                Val("boolean", IF parseInt(rawDefault).repr \in {"NaN", "0"} THEN "false" ELSE "true")
           [] type \in {"string", "enum", "date", "datetime"} ->
                IF rawDefault = Null THEN Val("object", Null) ELSE Val("string", rawDefault)
           [] OTHER -> Val("object", Null)

\* SQL LIKE: % is any run of characters, _ any one character
RECURSIVE Like(_, _)
Like(str, pattern) ==
    IF pattern = "" THEN str = ""
    ELSE LET p == SubSeq(pattern, 1, 1)
             rest == SubSeq(pattern, 2, Len(pattern))
         IN  IF p = "%"
             THEN Like(str, rest) \/ (str # "" /\ Like(SubSeq(str, 2, Len(str)), pattern))
             ELSE /\ str # ""
                  /\ (p = "_" \/ p = SubSeq(str, 1, 1))
                  /\ Like(SubSeq(str, 2, Len(str)), rest)

ColumnRow(table, pos, rawType, nullable) ==
    [ TABLE_NAME |-> table,
      COLUMN_NAME |-> "c" \o SubSeq(Digits, pos + 1, pos + 1),
      ORDINAL_POSITION |-> pos,
      IS_NULLABLE |-> nullable,
      COLUMN_TYPE |-> rawType,
      COLUMN_DEFAULT |-> IF nullable = "YES" THEN Null
                         ELSE IF rawType \in {"datetime", "timestamp"} THEN CURRENT_TIMESTAMP
                         ELSE "1",
      COLUMN_COMMENT |-> "" ]

\* Most columns of the table the model varies
MaxColumns == 2

\* Every type on a nullable column, some of them on a NOT NULL column too
ColumnKinds ==
    (RawTypes \X {"YES"})
        \cup ({"int(11)", "tinyint(1)", "datetime", "varchar(255)", "enum('a','b')"} \X {"NO"})

\* The table whose columns vary, and a second table of one column whose name the
\* first, read as a LIKE pattern, matches
VariedTable == "a_b"

OtherTable == "axb"

CatalogOf(kinds, withOther) ==
    [i \in 1..Len(kinds) |-> ColumnRow(VariedTable, i, kinds[i][1], kinds[i][2])]
        \o (IF withOther THEN <<ColumnRow(OtherTable, 1, "int(11)", "NO")>> ELSE <<>>)

\* ORDER BY ORDINAL_POSITION, rows of equal position in catalog order
RECURSIVE OrderByOrdinal(_)
OrderByOrdinal(rows) ==
    IF rows = <<>> THEN <<>>
    ELSE LET first == CHOOSE i \in DOMAIN rows :
                        \A j \in DOMAIN rows :
                            \/ rows[i].ORDINAL_POSITION < rows[j].ORDINAL_POSITION
                            \/ (rows[i].ORDINAL_POSITION = rows[j].ORDINAL_POSITION /\ i <= j)
         IN  <<rows[first]>> \o
                OrderByOrdinal(SubSeq(rows, 1, first - 1) \o SubSeq(rows, first + 1, Len(rows)))

\* SELECT ... FROM INFORMATION_SCHEMA.columns WHERE TABLE_SCHEMA = schema
\* AND TABLE_NAME LIKE name ORDER BY ORDINAL_POSITION
SelectColumns(name) ==
    OrderByOrdinal(SelectSeq(columns, LAMBDA row : Like(row.TABLE_NAME, name)))

\* The TableHeader built from one row whose type parseType accepts
TableHeader(row) ==
    LET rawType == row.COLUMN_TYPE
        type == parseType(rawType)
        isNumerical == type = "integer" \/ type = "float"
    IN  [ name |-> row.COLUMN_NAME,
          type |-> type,
          isNumerical |-> isNumerical,
          isTextual |-> ~isNumerical,
          signed |-> isNumerical /\ ~Includes(rawType, "unsigned"),
          ordinalPosition |-> row.ORDINAL_POSITION,
          rawType |-> rawType,
          defaultValue |-> identifyDefaultValue(rawType, type, row.COLUMN_DEFAULT),
          nullable |-> row.IS_NULLABLE = "YES",
          enumValues |-> findEnumValues(rawType),
          comment |-> row.COLUMN_COMMENT,
          tableName |-> row.TABLE_NAME ]

HeadersIdle ==
    /\ columns = <<>>
    /\ hpc = "idle"
    /\ hName = Null
    /\ hRows = <<>>
    /\ hi = 0
    /\ hResult = <<>>
    /\ herr = NoError

HeadersInit ==
    /\ \E kinds \in SeqsUpTo(ColumnKinds, MaxColumns), withOther \in BOOLEAN :
          columns = CatalogOf(kinds, withOther)
    /\ hpc = "idle"
    /\ hName = Null
    /\ hRows = <<>>
    /\ hi = 0
    /\ hResult = <<>>
    /\ herr = NoError

\* headers(schema, name): the catalog query
HeadersQuery ==
    /\ hpc = "idle"
    /\ \E name \in {VariedTable, OtherTable} :
          /\ hName' = name
          /\ hRows' = SelectColumns(name)
    /\ hi' = 1
    /\ hResult' = <<>>
    /\ hpc' = "map"
    /\ UNCHANGED <<columns, herr, insertVars, resolveVars, laterVars>>

\* _.map(result, ...): one row becomes a TableHeader, or parseType or
\* findEnumValues throws and headers is rejected
HeadersMapRow ==
    /\ hpc = "map"
    /\ hi <= Len(hRows)
    /\ LET row == hRows[hi] IN
         IF parseType(row.COLUMN_TYPE) = Null
         THEN /\ hpc' = "failed"
              /\ herr' = [message |-> "Could not determine TableDataType for raw type",
                          name |-> row.COLUMN_TYPE]
              /\ UNCHANGED <<hi, hResult>>
         ELSE IF findEnumValues(row.COLUMN_TYPE).threw
         THEN /\ hpc' = "failed"
              /\ herr' = [message |-> "Expecting a match from input string",
                          name |-> row.COLUMN_TYPE]
              /\ UNCHANGED <<hi, hResult>>
         ELSE /\ hResult' = Append(hResult, TableHeader(row))
              /\ hi' = hi + 1
              /\ UNCHANGED <<hpc, herr>>
    /\ UNCHANGED <<columns, hName, hRows, insertVars, resolveVars, laterVars>>

\* The mapped list is what headers resolves to
HeadersReturn ==
    /\ hpc = "map"
    /\ hi > Len(hRows)
    /\ hpc' = "done"
    /\ UNCHANGED <<columns, hName, hRows, hi, hResult, herr, insertVars, resolveVars, laterVars>>

HeadersNext ==
    \/ HeadersQuery
    \/ HeadersMapRow
    \/ HeadersReturn

----------------------------------------------------------------------------
(* headers: the claims *)

\* C9: in every header built, enumValues is non-null exactly when the type is
\* enum, and isNumerical is true exactly when the type is integer or float.
HeaderEnumValuesIffEnum ==
    \A i \in DOMAIN hResult :
        /\ (~hResult[i].enumValues.isNull) <=> (hResult[i].type = "enum")
        /\ hResult[i].isNumerical <=> (hResult[i].type \in {"integer", "float"})

\* The rules of classify in their documented order
DocumentedRules ==
    << [how |-> "contains", pats |-> {"tinyint(1)"}, type |-> "boolean"],
       [how |-> "contains", pats |-> {"int"}, type |-> "integer"],
       [how |-> "contains", pats |-> {"double", "float", "decimal"}, type |-> "float"],
       [how |-> "equals", pats |-> {"date"}, type |-> "date"],
       [how |-> "equals", pats |-> {"datetime", "timestamp"}, type |-> "datetime"],
       [how |-> "startsWith", pats |-> {"enum"}, type |-> "enum"],
       [how |-> "contains", pats |-> {"char"}, type |-> "string"],
       [how |-> "contains", pats |-> {"blob"}, type |-> "blob"] >>

RuleMatches(rule, raw) ==
    \E p \in rule.pats :
        CASE rule.how = "contains" -> Includes(raw, p)
          [] rule.how = "equals" -> raw = p
          [] OTHER -> StartsWith(raw, p)

\* The first rule that matches the raw type, 0 when none does
FirstRule(raw) ==
    LET hit == {k \in DOMAIN DocumentedRules : RuleMatches(DocumentedRules[k], raw)}
    IN  IF hit = {} THEN 0 ELSE CHOOSE k \in hit : \A j \in hit : k <= j

ParseTypeMessage == "Could not determine TableDataType for raw type"

\* C10: every header's type is the type of the first documented rule its raw
\* type matches; a row whose raw type matches no rule makes headers fail with the
\* error that carries the raw string, and only such a row does.
ClassifyFollowsRuleOrder ==
    /\ \A i \in DOMAIN hResult :
          /\ FirstRule(hResult[i].rawType) # 0
          /\ hResult[i].type = DocumentedRules[FirstRule(hResult[i].rawType)].type
    /\ hpc = "done" =>
          /\ Len(hResult) = Len(hRows)
          /\ \A i \in DOMAIN hRows : FirstRule(hRows[i].COLUMN_TYPE) # 0
    /\ (hpc = "failed" /\ herr.message = ParseTypeMessage) =>
          /\ herr.name = hRows[hi].COLUMN_TYPE
          /\ FirstRule(herr.name) = 0
    /\ (hpc = "failed" /\ herr.message # ParseTypeMessage) =>
          FirstRule(hRows[hi].COLUMN_TYPE) # 0

\* Two headers whose raw types match more than one rule
ClassifyFollowsRuleOrderWitness ==
    /\ hpc = "done"
    /\ Len(hResult) = 2
    /\ hResult[1].rawType = "tinyint(1)" /\ hResult[1].type = "boolean"
    /\ hResult[2].rawType = "enum('chart')" /\ hResult[2].type = "enum"

\* C23: every header in the result of headers(schema, table) belongs to the
\* requested table (its tableName is the table asked for), also when the name
\* holds _ or %; columns of other tables of the schema never appear.
HeadersBelongToRequestedTable ==
    \A i \in DOMAIN hResult : hResult[i].tableName = hName

----------------------------------------------------------------------------
(* findEnumValues on the column types a catalog can hold *)

\* The values enum columns are declared with
EnumLiterals == {"a", "b", "it's", "x,y"}

\* Most values of one enum column
MaxEnumValues == 3

\* A string with every quote doubled: how MySQL prints a quote inside a literal
RECURSIVE DoubleQuotes(_)
DoubleQuotes(s) ==
    IF s = "" THEN ""
    ELSE LET c == SubSeq(s, 1, 1)
         IN  (IF c = "'" THEN "''" ELSE c) \o DoubleQuotes(SubSeq(s, 2, Len(s)))

RECURSIVE JoinQuoted(_)
JoinQuoted(vs) ==
    IF Len(vs) = 1 THEN "'" \o DoubleQuotes(vs[1]) \o "'"
    ELSE "'" \o DoubleQuotes(vs[1]) \o "'," \o JoinQuoted(Tail(vs))

\* COLUMN_TYPE of a column declared ENUM(v1, ..., vn)
EnumColumnType(vs) == "enum(" \o JoinQuoted(vs) \o ")"

\* Strings that begin with enum( and are no list of quoted literals
MalformedEnumTypes ==
    {"enum(", "enum()", "enum(a,b)", "enum('a',b')", "enum('a' 'b')", "enum('a','b'",
     "enum(1)", "enum('a','b') unsigned"}

NotDeclared == <<>>

EnumIdle ==
    /\ eDeclared = NotDeclared
    /\ eRaw = Null
    /\ epc = "idle"
    /\ eResult = NullEnumValues

EnumInit ==
    /\ \/ /\ eDeclared \in SeqsUpTo(EnumLiterals, MaxEnumValues) \ {<<>>}
          /\ eRaw = EnumColumnType(eDeclared)
       \/ /\ eDeclared = NotDeclared
          /\ eRaw \in {r \in RawTypes : ~StartsWith(r, "enum(")} \cup MalformedEnumTypes
    /\ epc = "idle"
    /\ eResult = NullEnumValues

\* enumValues: TableDao.findEnumValues(rawType)
EnumExtract ==
    /\ epc = "idle"
    /\ eResult' = findEnumValues(eRaw)
    /\ epc' = "done"
    /\ UNCHANGED <<eDeclared, eRaw, exceptEnum>>

EnumNext == EnumExtract

\* C11: findEnumValues gives none for a type that does not begin with enum(, the
\* declared values v1..vn in their order for the type of a column declared
\* enum('v1',...,'vn'), and an error for any other string that begins with enum(.
ExtractEnumValuesContract ==
    epc = "done" =>
        CASE ~StartsWith(eRaw, "enum(") -> eResult = NullEnumValues
          [] StartsWith(eRaw, "enum(") /\ eDeclared # NotDeclared -> eResult = EnumValues(eDeclared)
          [] OTHER -> eResult = EnumValuesThrow

----------------------------------------------------------------------------
(* meta *)

\* The promises of the array handed to Promise.all, by what they fetch
SubFetches == {"tables", "headers", "count", "constraints", "comment"}

\* The names the schema's tables can have
StoreTableNames == {"orders", "orders__detail", "orders__note", "customers"}

\* Most tables of the schema
MaxTables == 3

\* Lists of distinct names
DistinctSeqs(S, n) == {q \in SeqsUpTo(S, n) : \A i, j \in DOMAIN q : q[i] = q[j] => i = j}

\* The marker between the name of a master and the name of its part
PartMarker == "__"

IsPartName(n) == Includes(n, PartMarker)

MasterOf(n) == Split(n, PartMarker)[1]

\* unflattenTableNames: the masters in order of appearance, each with its parts
\* in order of appearance; a part whose master is not listed is dropped
unflattenTableNames(list) ==
    LET masters == SelectSeq(list, LAMBDA n : ~IsPartName(n))
    IN  [i \in 1..Len(masters) |->
            [ rawName |-> masters[i],
              parts |-> SelectSeq(list, LAMBDA n : IsPartName(n) /\ MasterOf(n) = masters[i]) ]]

\* What a promise resolves to when its query succeeds
FetchedValue(f, table, list) ==
    CASE f = "tables" -> list
      [] f = "headers" -> <<"id", "name">>
      [] f = "count" -> <<"42">>
      [] f = "constraints" -> <<"resolved:fk_" \o table>>
      [] OTHER -> <<"comment of " \o table>>

NotFetched == [settled |-> FALSE, value |-> <<>>]

\* The error a promise is rejected with, by the call that failed
FetchError(stage) == "error in " \o stage

PromisePending == [state |-> "pending", reason |-> Null]

NoMeta ==
    [ returned |-> FALSE, name |-> Null, headers |-> <<>>, totalRows |-> <<>>,
      constraints |-> <<>>, comment |-> <<>>, parts |-> <<>> ]

\* Promise.all whose reason is that of the latest rejection
PromiseAllOnRejectKeepingLatest(all, reason) == [state |-> "rejected", reason |-> reason]

\* Promise.all when one of its promises is rejected: the first rejection settles it
PromiseAllOnReject(all, reason) ==
    IF all.state = "pending" THEN [state |-> "rejected", reason |-> reason] ELSE all

\* Promise.all when one of its promises is fulfilled: the last of them settles it
PromiseAllOnFulfil(all, sub) ==
    IF all.state = "pending" /\ \A f \in SubFetches : sub[f] = "fulfilled"
    THEN [state |-> "fulfilled", reason |-> Null]
    ELSE all

MetaIdle ==
    /\ mTable = Null
    /\ mStoreTables = <<>>
    /\ mpc = "idle"
    /\ mSub = [f \in SubFetches |-> "idle"]
    /\ mValue = [f \in SubFetches |-> NotFetched]
    /\ mAll = PromisePending
    /\ mFirstFailed = Null
    /\ mResult = NoMeta
    /\ mErr = Null

MetaInit ==
    /\ mTable \in StoreTableNames
    /\ mStoreTables \in DistinctSeqs(StoreTableNames, MaxTables)
    /\ mpc = "idle"
    /\ mSub = [f \in SubFetches |-> "idle"]
    /\ mValue = [f \in SubFetches |-> NotFetched]
    /\ mAll = PromisePending
    /\ mFirstFailed = Null
    /\ mResult = NoMeta
    /\ mErr = Null

\* await Promise.all([...]): the five calls are made one after the other before
\* any of them can complete
MetaCall ==
    /\ mpc = "idle"
    /\ mSub' = [f \in SubFetches |-> "pending"]
    /\ mpc' = "awaiting"
    /\ UNCHANGED <<mTable, mStoreTables, mValue, mAll, mFirstFailed, mResult, mErr, exceptMeta>>

\* this.constraints(schema, table) has resolved: its then-callback starts
\* resolveConstraints
MetaConstraintsListed ==
    /\ mSub["constraints"] = "pending"
    /\ mSub' = [mSub EXCEPT !["constraints"] = "resolving"]
    /\ UNCHANGED <<mTable, mStoreTables, mpc, mValue, mAll, mFirstFailed, mResult, mErr,
                   exceptMeta>>

\* One of the five promises is fulfilled
MetaSubFulfil(f) ==
    /\ mSub[f] = IF f = "constraints" THEN "resolving" ELSE "pending"
    /\ mSub' = [mSub EXCEPT ![f] = "fulfilled"]
    /\ mValue' = [mValue EXCEPT ![f] = [settled |-> TRUE,
                                        value |-> FetchedValue(f, mTable, mStoreTables)]]
    /\ mAll' = PromiseAllOnFulfil(mAll, mSub')
    /\ UNCHANGED <<mTable, mStoreTables, mpc, mFirstFailed, mResult, mErr, exceptMeta>>

\* One of the five promises is rejected: a query fails, or resolveConstraints throws
MetaSubReject(f) ==
    /\ mSub[f] \in {"pending", "resolving"}
    /\ mSub' = [mSub EXCEPT ![f] = "rejected"]
    /\ mAll' = PromiseAllOnReject(mAll, FetchError(IF mSub[f] = "resolving"
                                                   THEN "resolveConstraints" ELSE f))
    /\ mFirstFailed' = IF \E g \in SubFetches : mSub[g] = "rejected" THEN mFirstFailed ELSE f
    /\ UNCHANGED <<mTable, mStoreTables, mpc, mValue, mResult, mErr, exceptMeta>>

\* The await throws: meta is rejected with the reason of Promise.all
MetaThrow ==
    /\ mpc = "awaiting"
    /\ mAll.state = "rejected"
    /\ mErr' = mAll.reason
    /\ mpc' = "failed"
    /\ UNCHANGED <<mTable, mStoreTables, mSub, mValue, mAll, mFirstFailed, mResult, exceptMeta>>

\* The parts looked up by a master whose name the table's name begins with
MetaReturnMatchingPrefix ==
    /\ mpc = "awaiting"
    /\ mAll.state = "fulfilled"
    /\ LET masterTables == unflattenTableNames(mValue["tables"].value)
           hit == {i \in DOMAIN masterTables : StartsWith(mTable, masterTables[i].rawName)}
       IN  mResult' = [ returned |-> TRUE,
                        name |-> mTable,
                        headers |-> mValue["headers"].value,
                        totalRows |-> mValue["count"].value,
                        constraints |-> mValue["constraints"].value,
                        comment |-> mValue["comment"].value,
                        parts |-> IF hit = {} THEN <<>>
                                  ELSE masterTables[CHOOSE i \in hit : \A j \in hit : i <= j].parts ]
    /\ mpc' = "done"
    /\ UNCHANGED <<mTable, mStoreTables, mSub, mValue, mAll, mFirstFailed, mErr, exceptMeta>>

\* The await gives the five values: the parts are looked up and the TableMeta
\* is returned
MetaReturn ==
    /\ mpc = "awaiting"
    /\ mAll.state = "fulfilled"
    /\ LET masterTables == unflattenTableNames(mValue["tables"].value)
           hit == {i \in DOMAIN masterTables : masterTables[i].rawName = mTable}
       IN  mResult' = [ returned |-> TRUE,
                        name |-> mTable,
                        headers |-> mValue["headers"].value,
                        totalRows |-> mValue["count"].value,
                        constraints |-> mValue["constraints"].value,
                        comment |-> mValue["comment"].value,
                        parts |-> IF hit = {} THEN <<>>
                                  ELSE masterTables[CHOOSE i \in hit : \A j \in hit : i <= j].parts ]
    /\ mpc' = "done"
    /\ UNCHANGED <<mTable, mStoreTables, mSub, mValue, mAll, mFirstFailed, mErr, exceptMeta>>

MetaNext ==
    \/ MetaCall
    \/ MetaConstraintsListed
    \/ \E f \in SubFetches : MetaSubFulfil(f)
    \/ \E f \in SubFetches : MetaSubReject(f)
    \/ MetaThrow
    \/ MetaReturn

----------------------------------------------------------------------------
(* meta: the claims *)

\* The errors the promise named f can be rejected with
ErrorsOf(f) ==
    {"error in " \o f} \cup (IF f = "constraints" THEN {"error in resolveConstraints"} ELSE {})

\* C12: the five sub-fetches of meta are all in flight before any of them
\* completes; whatever the order of their completions, meta returns a TableMeta
\* only when all five succeeded, composed of their five results, and when one
\* fails it is rejected with the error of the first to fail and returns nothing.
MetaIsAllOrNothing ==
    /\ mpc # "idle" => \A f \in SubFetches : mSub[f] # "idle"
    /\ (\E f \in SubFetches : mSub[f] = "rejected") => mpc # "done" /\ mResult = NoMeta
    /\ mpc = "done" =>
          /\ \A f \in SubFetches : mSub[f] = "fulfilled"
          /\ mErr = Null
          /\ mResult.returned
          /\ mResult.name = mTable
          /\ mResult.headers = <<"id", "name">>
          /\ mResult.totalRows = <<"42">>
          /\ mResult.constraints = <<"resolved:fk_" \o mTable>>
          /\ mResult.comment = <<"comment of " \o mTable>>
    /\ mpc = "failed" =>
          /\ mResult = NoMeta
          /\ mFirstFailed \in SubFetches
          /\ mErr \in ErrorsOf(mFirstFailed)

\* meta rejected with the error of the comment query, which failed before the
\* table list did and after another sub-fetch had succeeded
MetaIsAllOrNothingWitness ==
    /\ mpc = "failed"
    /\ mFirstFailed = "comment"
    /\ mSub["tables"] = "rejected"
    /\ \E f \in SubFetches : mSub[f] = "fulfilled"

\* C13: the parts of the TableMeta are the parts of the master entry named
\* exactly as the table, in the order of the table list, and the empty list when
\* no master entry has that name (a part table, or a table that is not listed).
MetaPartsAreOfTheMaster ==
    mpc = "done" =>
        mResult.parts =
            IF mTable \in Range(mStoreTables) /\ ~Includes(mTable, "__")
            THEN SelectSeq(mStoreTables, LAMBDA n : StartsWith(n, mTable \o "__"))
            ELSE <<>>

\* A TableMeta of a master listed with its two parts
MetaPartsAreOfTheMasterWitness ==
    /\ mpc = "done"
    /\ Len(mResult.parts) = 2

----------------------------------------------------------------------------
(* AppComponent: grouping the master tables by tier *)

TIER_ORDER == <<"manual", "lookup", "imported", "computed", "hidden", "unknown">>

\* The tiers a master name can carry: those of TIER_ORDER and one that is not
MasterTiers == Range(TIER_ORDER) \cup {"archived"}

\* Most masters of a schema
MaxMasters == 3

\* The i-th master name of a list, of the given tier
MasterTableName(i, tier) == [rawName |-> "t" \o SubSeq(Digits, i + 1, i + 1), tier |-> tier]

\* Array.prototype.indexOf, counting from 0
indexOf(array, x) ==
    IF \E i \in DOMAIN array : array[i] = x
    THEN (CHOOSE i \in DOMAIN array : array[i] = x /\ \A j \in 1..(i - 1) : array[j] # x) - 1
    ELSE -1

\* The keys of _.groupBy: the tiers in the order of their first appearance
RECURSIVE TiersInOrder(_)
TiersInOrder(list) ==
    IF list = <<>> THEN <<>>
    ELSE <<Head(list).tier>> \o
            TiersInOrder(SelectSeq(Tail(list), LAMBDA n : n.tier # Head(list).tier))

\* _(names).groupBy((n) => n.tier).map((value, key) => ({tier: key, names: value}))
groupByTier(list) ==
    LET keys == TiersInOrder(list)
    IN  [k \in DOMAIN keys |->
            [tier |-> keys[k], names |-> SelectSeq(list, LAMBDA n : n.tier = keys[k])]]

\* The groups left in the order groupBy gave them
sortByTierOrderSkipped(groups) == groups

\* _.sortBy by the position of the tier in TIER_ORDER: a stable sort
RECURSIVE sortByTierOrder(_)
sortByTierOrder(groups) ==
    IF groups = <<>> THEN <<>>
    ELSE LET pos(i) == indexOf(TIER_ORDER, groups[i].tier)
             first == CHOOSE i \in DOMAIN groups :
                        \A j \in DOMAIN groups : pos(i) < pos(j) \/ (pos(i) = pos(j) /\ i <= j)
         IN  <<groups[first]>> \o
                sortByTierOrder(SubSeq(groups, 1, first - 1) \o
                                SubSeq(groups, first + 1, Len(groups)))

GroupIdle ==
    /\ gNames = <<>>
    /\ gpc = "idle"
    /\ groupedNames = <<>>
    /\ gErr = Null

GroupInit ==
    /\ \E tiers \in SeqsUpTo(MasterTiers, MaxMasters) :
          gNames = [i \in DOMAIN tiers |-> MasterTableName(i, tiers[i])]
    /\ gpc = "idle"
    /\ groupedNames = <<>>
    /\ gErr = Null

\* The map callback and the subscriber: the groups are sorted and stored, or
\* the iteratee of sortBy throws on the first group whose tier has no position
GroupNames ==
    /\ gpc = "idle"
    /\ LET groups == groupByTier(gNames)
           bad == {k \in DOMAIN groups : indexOf(TIER_ORDER, groups[k].tier) < 0}
       IN  IF bad # {}
           THEN /\ gErr' = "unexpected tier: " \o
                              groups[CHOOSE k \in bad : \A l \in bad : k <= l].tier
                /\ gpc' = "failed"
                /\ UNCHANGED groupedNames
           ELSE /\ groupedNames' = sortByTierOrder(groups)
                /\ gpc' = "done"
                /\ UNCHANGED gErr
    /\ UNCHANGED <<gNames, exceptGroup>>

GroupNext == GroupNames

\* The precedence of the tiers, earliest first
TierPrecedence == <<"manual", "lookup", "imported", "computed", "hidden", "unknown">>

\* Tier a comes before tier b in the precedence
TierPrecedes(a, b) ==
    \E i, j \in DOMAIN TierPrecedence :
        i < j /\ TierPrecedence[i] = a /\ TierPrecedence[j] = b

\* C15: the masters are grouped by tier, one group per tier holding the masters
\* of that tier, and the groups are in the order manual, lookup, imported,
\* computed, hidden, unknown: a group of an earlier tier comes before any group
\* of a later tier; a master whose tier is not one of the six makes the
\* grouping fail with an error and nothing is grouped.
GroupsFollowTierPrecedence ==
    /\ gpc # "idle" =>
          (gpc = "failed" <=> \E i \in DOMAIN gNames : gNames[i].tier \notin Range(TierPrecedence))
    /\ gpc = "failed" => gErr # Null /\ groupedNames = <<>>
    /\ gpc = "done" =>
          /\ gErr = Null
          /\ \A i, j \in DOMAIN groupedNames :
                i < j => TierPrecedes(groupedNames[i].tier, groupedNames[j].tier)
          /\ \A n \in Range(gNames) :
                \E k \in DOMAIN groupedNames :
                    groupedNames[k].tier = n.tier /\ n \in Range(groupedNames[k].names)
          /\ \A k \in DOMAIN groupedNames :
                groupedNames[k].names =
                    SelectSeq(gNames, LAMBDA n : n.tier = groupedNames[k].tier)

\* Three groups whose tiers first appeared in another order than they are shown
GroupsFollowTierPrecedenceWitness ==
    /\ gpc = "done"
    /\ Len(groupedNames) = 3
    /\ gNames[1].tier = "unknown"
    /\ groupedNames[1].tier = "manual"

----------------------------------------------------------------------------
(* The forms: FormHostComponent and FormSpecGeneratorService *)

\* The column types of the tables a form is made for
FormRawTypes ==
    {"varchar(255)", "int(11)", "tinyint(1)", "enum('a','b')", "date", "datetime", "blob",
     "double"}

\* Most columns of such a table
MaxFormHeaders == 2

\* The header of the i-th column as the server sends it
FormHeader(i, rawType, nullable) ==
    [ name |-> "c" \o SubSeq(Digits, i + 1, i + 1),
      type |-> parseType(rawType),
      rawType |-> rawType,
      nullable |-> nullable,
      enumValues |-> findEnumValues(rawType) ]

\* Validators.required
ValidatorsRequired == "required"

\* The FieldConfig of a header that holds the required validator whatever the
\* header says
FieldConfigOfAlwaysRequired(h) ==
    [ name |-> h.name,
      label |-> h.name,
      type |-> IF ~h.enumValues.isNull THEN "select" ELSE "input",
      subtype |-> IF h.rawType = "tinyint(1)" THEN "checkbox"
                  ELSE IF h.type = "date" THEN "date"
                  ELSE IF h.type = "timestamp" THEN "datetime-local"
                  ELSE "text",
      options |-> h.enumValues,
      validation |-> <<ValidatorsRequired>> ]

\* The callback of meta.headers.map in FormHostComponent.ngOnInit (a TableHeader
\* has no isNumber, so the subtype is never number)
FieldConfigOf(h) ==
    [ name |-> h.name,
      label |-> h.name,
      type |-> IF ~h.enumValues.isNull THEN "select" ELSE "input",
      subtype |-> IF h.rawType = "tinyint(1)" THEN "checkbox"
                  ELSE IF h.type = "date" THEN "date"
                  ELSE IF h.type = "timestamp" THEN "datetime-local"
                  ELSE "text",
      options |-> h.enumValues,
      validation |-> IF ~h.nullable THEN <<ValidatorsRequired>> ELSE <<>> ]

SubmitButton == [type |-> "submit", label |-> "SUBMIT", name |-> "submit", disabled |-> TRUE]

\* The headers the spec of FormSpecGeneratorService generates from: textual
\* headers, nullable or not, a nullable enum header, a boolean header that is
\* not nullable
GeneratorSpecCovers(h) ==
    \/ h.type = "string"
    \/ h.type = "enum" /\ h.nullable
    \/ h.type = "boolean" /\ ~h.nullable

\* What generate returns for such a header, as its spec expects it
FormControlSpecOf(h) ==
    [ formControlName |-> h.name,
      placeholder |-> h.name,
      type |-> CASE h.type = "string" -> "text"
                 [] h.type = "enum" -> "enum"
                 [] OTHER -> "boolean",
      validation |-> IF h.type = "string" /\ ~h.nullable THEN <<ValidatorsRequired>> ELSE <<>> ]

FormIdle ==
    /\ fHeaders = <<>>
    /\ fHostPc = "idle"
    /\ fConfig = <<>>
    /\ fGenPc = "idle"
    /\ fSpecs = <<>>

FormInit ==
    /\ \E kinds \in SeqsUpTo(FormRawTypes \X BOOLEAN, MaxFormHeaders) :
          fHeaders = [i \in DOMAIN kinds |-> FormHeader(i, kinds[i][1], kinds[i][2])]
    /\ fHostPc = "idle"
    /\ fConfig = <<>>
    /\ fGenPc = "idle"
    /\ fSpecs = <<>>

\* FormHostComponent: the route callback maps the headers, adds the submit
\* button and stores the config
FormHostInit ==
    /\ fHostPc = "idle"
    /\ fConfig' = [i \in DOMAIN fHeaders |-> FieldConfigOf(fHeaders[i])] \o <<SubmitButton>>
    /\ fHostPc' = "done"
    /\ UNCHANGED <<fHeaders, fGenPc, fSpecs, exceptForm>>

\* FormSpecGeneratorService.generate(meta), on the headers its spec covers
FormSpecGenerate ==
    /\ fGenPc = "idle"
    /\ \A i \in DOMAIN fHeaders : GeneratorSpecCovers(fHeaders[i])
    /\ fSpecs' = [i \in DOMAIN fHeaders |-> FormControlSpecOf(fHeaders[i])]
    /\ fGenPc' = "done"
    /\ UNCHANGED <<fHeaders, fHostPc, fConfig, exceptForm>>

FormNext ==
    \/ FormHostInit
    \/ FormSpecGenerate

\* The control holds the required validator
HoldsRequired(control) == \E k \in DOMAIN control.validation : control.validation[k] = "required"

----------------------------------------------------------------------------
(* content *)

\* The column types of the tables content is read from
ContentRawTypes == {"date", "datetime", "timestamp", "blob", "int(11)", "varchar(255)"}

\* Most columns of the table read, and most rows of it
MaxContentColumns == 2

MaxContentRows == 1

DATE_FORMAT == "YYYY-MM-DD"

DATETIME_FORMAT == "YYYY-MM-DD HH:mm:ss"

BLOB_STRING_REPRESENTATION == "<blob>"

\* The instant the Date values of the rows stand for
StoredInstant == "2018-03-04T05:06:07"

\* What the driver hands back for a column of a type: a Date or null for the
\* date and time types, a Buffer or null for a blob, a number, a string
DriverValues(rawType) ==
    CASE rawType \in {"date", "datetime", "timestamp"} ->
            {Val("Date", StoredInstant), Val("object", Null)}
      [] rawType = "blob" -> {Val("Buffer", "bytes"), Val("object", Null)}
      [] rawType = "int(11)" -> {Val("number", "7")}
      [] OTHER -> {Val("string", "x")}

\* moment(date).format(format)
momentFormat(date, format) ==
    IF format = DATE_FORMAT
    THEN Val("string", SubSeq(date.repr, 1, 10))
    ELSE Val("string", SubSeq(date.repr, 1, 10) \o " " \o SubSeq(date.repr, 12, 19))

\* The catalog: the columns of the table read and, before or after them, the one
\* column of a table whose name the first, read as a LIKE pattern, matches
ContentCatalogs ==
    LET own(kinds) == [i \in DOMAIN kinds |-> ColumnRow(VariedTable, i, kinds[i], "YES")]
        other(kind) == <<ColumnRow(OtherTable, 1, kind, "YES")>>
    IN  UNION { {own(kinds)}
                    \cup {other(k) \o own(kinds) : k \in ContentRawTypes}
                    \cup {own(kinds) \o other(k) : k \in ContentRawTypes}
                : kinds \in SeqsUpTo(ContentRawTypes, MaxContentColumns) \ {<<>>} }

\* The columns of a table in the catalog
ColumnsOf(table) == SelectSeq(columns, LAMBDA row : row.TABLE_NAME = table)

\* The rows a table of these columns can hold
RowsOf(table) ==
    LET cols == ColumnsOf(table)
        colNames == {cols[i].COLUMN_NAME : i \in DOMAIN cols}
        typeOf(c) == (CHOOSE i \in DOMAIN cols : cols[i].COLUMN_NAME = c)
    IN  {r \in [colNames -> UNION {DriverValues(t) : t \in ContentRawTypes}] :
            \A c \in colNames : r[c] \in DriverValues(cols[typeOf(c)].COLUMN_TYPE)}

\* _.find(headers, (h) => h.name === col): the first header of that name
findHeader(headers, col) ==
    LET hit == {i \in DOMAIN headers : headers[i].name = col}
    IN  IF hit = {} THEN 0 ELSE CHOOSE i \in hit : \A j \in hit : i <= j

\* The body of the loop for one value: what it becomes, or what is thrown
FormatValue(headers, col, v) ==
    LET k == findHeader(headers, col)
        blobHeaders == {headers[i].name : i \in {j \in DOMAIN headers : headers[j].type = "blob"}}
    IN  IF v.typeof = "Date"
        THEN IF k = 0
             THEN [threw |-> TRUE, message |-> "Could not find header with name", value |-> v]
             ELSE IF headers[k].type = "date"
             THEN [threw |-> FALSE, message |-> Null, value |-> momentFormat(v, DATE_FORMAT)]
             ELSE IF headers[k].type = "datetime"
             THEN [threw |-> FALSE, message |-> Null, value |-> momentFormat(v, DATETIME_FORMAT)]
             ELSE [threw |-> TRUE, message |-> "unexpectedly had a Date value in it", value |-> v]
        ELSE IF col \in blobHeaders
        THEN [threw |-> FALSE, message |-> Null,
              value |-> Val("string", BLOB_STRING_REPRESENTATION)]
        ELSE [threw |-> FALSE, message |-> Null, value |-> v]

ContentIdle ==
    /\ cTable = Null
    /\ cStored = <<>>
    /\ cpc = "idle"
    /\ cRows = <<>>
    /\ cOut = <<>>
    /\ cErr = NoError

\* headers has not been called on its own
HeadersNotCalled ==
    /\ hpc = "idle"
    /\ hName = Null
    /\ hRows = <<>>
    /\ hi = 0
    /\ hResult = <<>>
    /\ herr = NoError

ContentInit ==
    /\ columns \in ContentCatalogs
    /\ HeadersNotCalled
    /\ cTable = VariedTable
    /\ cStored \in SeqsUpTo(RowsOf(VariedTable), MaxContentRows)
    /\ cpc = "idle"
    /\ cRows = <<>>
    /\ cOut = <<>>
    /\ cErr = NoError

\* const rows = await this.helper.execute(...): the first page of the table
ContentQuery ==
    /\ cpc = "idle"
    /\ cRows' = cStored
    /\ cpc' = "rows"
    /\ UNCHANGED <<cTable, cStored, cOut, cErr, exceptContent>>

\* const headers = await this.headers(schema, table) and the loops over the rows
\* and their columns: the rows are returned, or the first value that cannot be
\* shown throws
ContentFormat ==
    /\ cpc = "rows"
    /\ LET hrows == SelectColumns(cTable)
           unparsed == {i \in DOMAIN hrows :
                            \/ parseType(hrows[i].COLUMN_TYPE) = Null
                            \/ findEnumValues(hrows[i].COLUMN_TYPE).threw}
           headers == [i \in DOMAIN hrows |-> TableHeader(hrows[i])]
           thrown == {cell \in {<<i, c>> : i \in DOMAIN cRows, c \in {"c1", "c2", "c3"}} :
                        /\ cell[2] \in DOMAIN cRows[cell[1]]
                        /\ FormatValue(headers, cell[2], cRows[cell[1]][cell[2]]).threw}
       IN  IF unparsed # {}
           THEN /\ cpc' = "failed"
                /\ cErr' = [message |-> "Could not determine TableDataType for raw type",
                            name |-> hrows[CHOOSE i \in unparsed : \A j \in unparsed : i <= j].COLUMN_TYPE]
                /\ UNCHANGED cOut
           ELSE IF thrown # {}
           THEN LET first == CHOOSE cell \in thrown :
                                \A other \in thrown :
                                    \/ cell[1] < other[1]
                                    \/ cell[1] = other[1] /\ ~StrLess(other[2], cell[2])
                IN  /\ cpc' = "failed"
                    /\ cErr' = [message |-> FormatValue(headers, first[2],
                                                         cRows[first[1]][first[2]]).message,
                                name |-> first[2]]
                    /\ UNCHANGED cOut
           ELSE /\ cOut' = [i \in DOMAIN cRows |->
                              [c \in DOMAIN cRows[i] |-> FormatValue(headers, c, cRows[i][c]).value]]
                /\ cpc' = "done"
                /\ UNCHANGED cErr
    /\ UNCHANGED <<cTable, cStored, cRows, exceptContent>>

ContentNext ==
    \/ ContentQuery
    \/ ContentFormat

\* The type of the header of a column of the table read
OwnHeaderType(col) ==
    LET cols == ColumnsOf(cTable)
    IN  parseType(cols[CHOOSE i \in DOMAIN cols : cols[i].COLUMN_NAME = col].COLUMN_TYPE)

\* C16: in every row content returns, the value of a column whose header type is
\* blob is the sentinel string, and a Date value has become the text of the date
\* format when the column's header type is date and of the datetime format when
\* it is datetime; rows are never returned with a Date value in a column of
\* another type.
ContentShowsValuesByHeaderType ==
    cpc = "done" =>
        \A i \in DOMAIN cOut : \A c \in DOMAIN cOut[i] :
            LET stored == cRows[i][c]
                shown == cOut[i][c]
                type == OwnHeaderType(c)
            IN  /\ type = "blob" => shown = Val("string", "<blob>")
                /\ stored.typeof = "Date" =>
                      CASE type = "date" -> shown = Val("string", "2018-03-04")
                        [] type = "datetime" -> shown = Val("string", "2018-03-04 05:06:07")
                        [] OTHER -> FALSE

----------------------------------------------------------------------------
(* AppComponent: the default schema *)

\* The schemas the backend can list
SchemaNames == {"helium", "information_schema", "INFORMATION_SCHEMA", "mysql"}

\* Most schemas in one list
MaxSchemas == 3

UpperCase == "ABCDEFGHIJKLMNOPQRSTUVWXYZ"

LowerCase == "abcdefghijklmnopqrstuvwxyz"

\* String.prototype.toLocaleLowerCase on the names of the model
RECURSIVE toLocaleLowerCase(_)
toLocaleLowerCase(s) ==
    IF s = "" THEN ""
    ELSE LET c == SubSeq(s, 1, 1)
             hit == {i \in 1..Len(UpperCase) : SubSeq(UpperCase, i, i) = c}
             lower == IF hit = {} THEN c
                      ELSE LET i == CHOOSE k \in hit : TRUE IN SubSeq(LowerCase, i, i)
         IN  lower \o toLocaleLowerCase(SubSeq(s, 2, Len(s)))

\* The lists backend.schemas() can give: distinct names, the catalog schema
\* under one spelling at most
SchemaLists ==
    { l \in DistinctSeqs(SchemaNames, MaxSchemas) :
        Cardinality({i \in DOMAIN l : toLocaleLowerCase(l[i]) = "information_schema"}) <= 1 }

\* What schemas$ emits: null when logged out, else the list of schemas
Emissions ==
    {[isNull |-> TRUE, list |-> <<>>]} \cup {[isNull |-> FALSE, list |-> l] : l \in SchemaLists}

\* The path segments router.url can have
Urls ==
    LET heads == {"tables", "forms", "login"}
        seconds == {"helium", "information_schema", "gone"}
    IN  {<<h>> : h \in heads} \cup {<<h, n>> : h \in heads, n \in seconds}

Undefined == Val("undefined", "undefined")

NotCalled == [called |-> FALSE, all |-> <<>>]

\* _.sortBy(all): ascending by the < of strings, equal names in list order
RECURSIVE sortByName(_)
sortByName(list) ==
    IF list = <<>> THEN <<>>
    ELSE LET first == CHOOSE i \in DOMAIN list :
                        \A j \in DOMAIN list :
                            \/ StrLess(list[i], list[j])
                            \/ (list[i] = list[j] /\ i <= j)
         IN  <<list[first]>> \o
                sortByName(SubSeq(list, 1, first - 1) \o SubSeq(list, first + 1, Len(list)))

\* sorted[i] of a JavaScript array: undefined past its end
ElementAt(sorted, i) == IF i \in DOMAIN sorted THEN Val("string", sorted[i]) ELSE Undefined

\* AppComponent.determineDefaultSchema(all) with router.url of the given segments
determineDefaultSchema(all, segments) ==
    IF /\ Len(segments) > 1
       /\ segments[1] \in {"tables", "forms"}
       /\ segments[2] \in Range(all)
    THEN [threw |-> FALSE, value |-> Val("string", segments[2])]
    ELSE LET sorted == sortByName(all) IN
         IF sorted = <<>>
         THEN [threw |-> TRUE, value |-> Undefined]
         ELSE IF toLocaleLowerCase(sorted[1]) = "information_schema" /\ Len(sorted) > 0
         THEN [threw |-> FALSE, value |-> ElementAt(sorted, 2)]
         ELSE [threw |-> FALSE, value |-> ElementAt(sorted, 1)]

SchemaIdle ==
    /\ dUrl = <<>>
    /\ schemaControl = Val("object", Null)
    /\ schemas = <<>>
    /\ dAll = NotCalled
    /\ dResult = Undefined
    /\ dErr = NoError

SchemaInit ==
    /\ dUrl \in Urls
    /\ schemaControl = Val("object", Null)
    /\ schemas = <<>>
    /\ dAll = NotCalled
    /\ dResult = Undefined
    /\ dErr = NoError

\* The subscriber of schemas$ with no schema selected and a list emitted: the
\* default is determined and selected, or determineDefaultSchema throws
SchemasSelectDefault ==
    /\ dErr = NoError
    /\ schemaControl = Val("object", Null)
    /\ \E emitted \in Emissions :
          /\ ~emitted.isNull
          /\ LET call == determineDefaultSchema(emitted.list, dUrl) IN
               /\ dAll' = [called |-> TRUE, all |-> emitted.list]
               /\ IF call.threw
                  THEN /\ dErr' = [message |-> "Cannot read property 'toLocaleLowerCase' of undefined",
                                   name |-> "TypeError"]
                       /\ UNCHANGED <<schemaControl, schemas, dResult>>
                  ELSE /\ dResult' = call.value
                       /\ schemaControl' = call.value
                       /\ schemas' = emitted.list
                       /\ UNCHANGED dErr
    /\ UNCHANGED <<dUrl, exceptSchema>>

\* The subscriber of schemas$ when null is emitted or a schema is selected
\* already: only the list is kept
SchemasKeep ==
    /\ dErr = NoError
    /\ \E emitted \in Emissions :
          /\ emitted.isNull \/ schemaControl # Val("object", Null)
          /\ schemas' = emitted.list
    /\ UNCHANGED <<dUrl, schemaControl, dAll, dResult, dErr, exceptSchema>>

SchemaNext ==
    \/ SchemasSelectDefault
    \/ SchemasKeep

----------------------------------------------------------------------------
(* AppComponent: the default schema, the claim *)

\* The schema the current URL names, Null when it names none
SchemaOfUrl(segments) ==
    IF Len(segments) > 1 /\ segments[1] \in {"tables", "forms"} THEN segments[2] ELSE Null

\* The first of a set of names in the order of sortByName
FirstOf(S) == CHOOSE n \in S : \A m \in S : n = m \/ StrLess(n, m)

\* The default the description gives: the URL's schema when it is available,
\* otherwise the first schema in order that is not information_schema, and
\* information_schema when it is the only one
DocumentedDefault(all, segments) ==
    LET others == {n \in Range(all) : toLocaleLowerCase(n) # "information_schema"}
    IN  IF SchemaOfUrl(segments) \in Range(all) THEN SchemaOfUrl(segments)
        ELSE IF others # {} THEN FirstOf(others)
        ELSE FirstOf(Range(all))

\* C22: for every non-empty list of available schemas determineDefaultSchema
\* returns a schema of the list: the one the current URL names when it is
\* available, otherwise the alphabetically first one, never information_schema
\* unless it is the only schema of the list, in which case it is returned.
DefaultSchemaIsDocumented ==
    (dAll.called /\ dAll.all # <<>>) =>
        /\ dErr = NoError
        /\ dResult = Val("string", DocumentedDefault(dAll.all, dUrl))
        /\ dResult.repr \in Range(dAll.all)

----------------------------------------------------------------------------
(* The specifications *)

\* The parts before findEnumValues at rest
BaseIdle == InsertIdle /\ ResolveIdle /\ HeadersIdle

\* The parts after headers at rest
LaterIdle == EnumIdle /\ MetaIdle /\ GroupIdle /\ FormIdle /\ ContentIdle /\ SchemaIdle

InitInsert == InsertInit /\ ResolveIdle /\ HeadersIdle /\ LaterIdle

SpecInsert == InitInsert /\ [][InsertNext]_vars

InitResolve == ResolveInit /\ InsertIdle /\ HeadersIdle /\ LaterIdle

SpecResolve == InitResolve /\ [][ResolveNext]_vars

InitHeaders == HeadersInit /\ InsertIdle /\ ResolveIdle /\ LaterIdle

SpecHeaders == InitHeaders /\ [][HeadersNext]_vars

InitEnum ==
    EnumInit /\ BaseIdle /\ MetaIdle /\ GroupIdle /\ FormIdle /\ ContentIdle /\ SchemaIdle

SpecEnum == InitEnum /\ [][EnumNext]_vars

InitMeta ==
    MetaInit /\ BaseIdle /\ EnumIdle /\ GroupIdle /\ FormIdle /\ ContentIdle /\ SchemaIdle

SpecMeta == InitMeta /\ [][MetaNext]_vars

InitGroup ==
    GroupInit /\ BaseIdle /\ EnumIdle /\ MetaIdle /\ FormIdle /\ ContentIdle /\ SchemaIdle

SpecGroup == InitGroup /\ [][GroupNext]_vars

InitForm ==
    FormInit /\ BaseIdle /\ EnumIdle /\ MetaIdle /\ GroupIdle /\ ContentIdle /\ SchemaIdle

SpecForm == InitForm /\ [][FormNext]_vars

InitContent ==
    /\ ContentInit /\ InsertIdle /\ ResolveIdle
    /\ EnumIdle /\ MetaIdle /\ GroupIdle /\ FormIdle /\ SchemaIdle

SpecContent == InitContent /\ [][ContentNext]_vars

InitSchema ==
    /\ SchemaInit /\ BaseIdle
    /\ EnumIdle /\ MetaIdle /\ GroupIdle /\ FormIdle /\ ContentIdle

SpecSchema == InitSchema /\ [][SchemaNext]_vars

====
